---- MODULE Spec2Model ----
(***************************************************************************)
(* A model of otelslog (src/otelslog.go): the slog.Handler that correlates *)
(* log records with OpenTelemetry spans, its SpanContext span handles and  *)
(* the forking of handlers with WithAttrs / WithGroup.                     *)
(*                                                                         *)
(* src/otelslog.go holds two revisions of the package one after the other: *)
(* lines 1-427 (SpanContext, group keys, trace level gating) and lines     *)
(* 428-714 (SpanAttr, getSpanWithAttrs).  The first is modelled by the     *)
(* actions of Spec; the second by the actions of SpecEarlier.              *)
(***************************************************************************)
EXTENDS Integers, Sequences, FiniteSets, TLC

VARIABLES
    handlers,   \* the Handler objects: root (NewHandler) and its forks
    arrays,     \* heap of backing arrays of the groupKeys slices
    handles,    \* the SpanContext (SpanAttr) objects the application holds
    spans,      \* every span the tracer has started, in start order
    tracer,     \* TRUE iff the global tracer provider yields recording spans
    last,       \* the call that has just returned: its inputs, what it read, its outcome
    nops,       \* number of calls the application has made
    calls       \* the Handle calls in flight in concurrent goroutines (SpecRace)

vars == <<handlers, arrays, handles, spans, tracer, last, nops, calls>>

----------------------------------------------------------------------------
(* Bounds of the model *)

MaxOps == 4             \* calls made by the application in Spec
MaxForkHandlers == 6    \* Handler objects in SpecFork
MaxHandles == 2         \* SpanContext objects
MaxRecAttrs == 2        \* attributes of one record
MaxLifeOps == 6         \* calls made by the application in SpecLife
MaxKids == 2            \* attributes of one group in SpecConvert

----------------------------------------------------------------------------
(* slog levels *)

LevelDebug == -4
LevelInfo == 0
LevelWarn == 4
LevelError == 8

\* slog.Level is an integer: a level above LevelError, named "ERROR+4"
LevelAboveError == LevelError + 4

Levels == {LevelDebug, LevelInfo, LevelWarn, LevelError, LevelAboveError}
TraceLevels == {LevelInfo, LevelWarn}

GroupNames == {"a", "b"}

----------------------------------------------------------------------------
(* Values *)

\* a slog.Attr: its key, the kind of its value (slog.Kind) and the value.
\* A KindAny value is a record naming its Go type (go); h > 0 marks the
\* *SpanContext handles[h]; the value of a group is the sequence of its
\* attributes; the zero Attr has the nil value of KindAny.
StrAttr(k, v) == [key |-> k, kind |-> "String", val |-> v, h |-> 0]
SpanAttrib(k, h) ==
    [key |-> k, kind |-> "Any", val |-> [go |-> "*SpanContext"], h |-> h]
ZeroAttr == [key |-> "", kind |-> "Any", val |-> [go |-> "nil"], h |-> 0]

\* a context.Context value
NilCtx == [k |-> "nil", id |-> 0]
Background == [k |-> "bg", id |-> 0]
WithSpanCtx(s) == [k |-> "span", id |-> s]       \* trace.ContextWithSpan(_, s)
HandleCtx(h) == [k |-> "handle", id |-> h]       \* a *SpanContext used as a context

Panic == -1

\* trace.SpanFromContext(ctx) as used by the handler and by Tracer.Start: the
\* span carried by ctx, 0 when it carries none, Panic when the lookup calls
\* Value on the nil Context embedded in a SpanContext.
RECURSIVE SpanFromContext(_, _)
SpanFromContext(hs, c) ==
    CASE c.k = "span" -> c.id
      [] c.k = "handle" ->
            IF hs[c.id].Context.k = "nil" THEN Panic
            ELSE SpanFromContext(hs, hs[c.id].Context)
      [] OTHER -> 0

\* Span.IsRecording(): a recording span that has not ended
IsRecording(sp, s) == s > 0 /\ sp[s].rec /\ ~sp[s].ended

----------------------------------------------------------------------------
(* Go slices *)

\* slices.Delete(s, i, j) with Go's 0-based indices: it fails (panics) unless
\* 0 <= i <= j <= len(s)
DeleteOk(s, i, j) == 0 <= i /\ i <= j /\ j <= Len(s)

\* the slice slices.Delete returns: s without s[i:j]
SlicesDelete(s, i, j) == SubSeq(s, 1, i) \o SubSeq(s, j + 1, Len(s))

\* what a slice header of the old length reads afterwards: the tail is shifted
\* down and the vacated elements are zeroed
AfterDelete(s, i, j) ==
    SlicesDelete(s, i, j) \o [n \in 1..(j - i) |-> ZeroAttr]

\* a groupKeys slice is [arr, len]: arr = 0 is the nil slice, otherwise an
\* index into arrays; its capacity is the length of the array
Cap(arrs, sl) == IF sl.arr = 0 THEN 0 ELSE Len(arrs[sl.arr])
Elems(arrs, sl) == IF sl.arr = 0 THEN <<>> ELSE SubSeq(arrs[sl.arr], 1, sl.len)

\* append(sl, name): in place when there is spare capacity, otherwise into a
\* new array of doubled capacity (1 for the nil slice)
GoAppend(arrs, sl, name) ==
    IF sl.len < Cap(arrs, sl)
    THEN [arrs |-> [arrs EXCEPT ![sl.arr][sl.len + 1] = name],
          sl |-> [arr |-> sl.arr, len |-> sl.len + 1]]
    ELSE LET newcap == IF Cap(arrs, sl) = 0 THEN 1 ELSE 2 * Cap(arrs, sl)
             fresh == [n \in 1..newcap |->
                          IF n <= sl.len THEN arrs[sl.arr][n]
                          ELSE IF n = sl.len + 1 THEN name ELSE ""]
         IN [arrs |-> Append(arrs, fresh),
             sl |-> [arr |-> Len(arrs) + 1, len |-> sl.len + 1]]

RECURSIVE Join(_)
\* strings.Join(keys, ".")
Join(keys) ==
    IF keys = <<>> THEN ""
    ELSE IF Len(keys) = 1 THEN keys[1]
    ELSE keys[1] \o "." \o Join(Tail(keys))

----------------------------------------------------------------------------
(* Handler, lines 1-427 *)

\* the options NewHandler applies
NewHandler(next, traceLevel, spanEvent, custom) ==
    [traceIDKey |-> IF custom THEN "tid" ELSE "trace_id",
     spanIDKey |-> IF custom THEN "sid" ELSE "span_id",
     attrs |-> <<>>,
     groupKeys |-> [arr |-> 0, len |-> 0],
     spanEventKey |-> IF custom THEN "ev" ELSE "log",
     spanEvent |-> spanEvent,
     traceLevel |-> traceLevel,
     Next |-> next,
     path0 |-> <<>>,     \* ghost: the group path this handler was created with
     attrsAt |-> 0]      \* ghost: the groups entered when its attrs were given

\* the wrapped slog.Handler: nil, or a sink with its own level and group path
NilSink == [nil |-> TRUE, minLevel |-> LevelInfo, groups |-> <<>>, err |-> FALSE]
Sink(minLevel, err) == [nil |-> FALSE, minLevel |-> minLevel, groups |-> <<>>, err |-> err]
SinkEnabled(next, level) == level >= next.minLevel

collectAttributes(h, recAttrs) == h.attrs \o recAttrs

\* position (1-based) of the first attribute holding a *SpanContext, 0 if none
FirstSpanPos(attrs) ==
    IF \E p \in 1..Len(attrs) : attrs[p].h # 0
    THEN CHOOSE p \in 1..Len(attrs) :
            attrs[p].h # 0 /\ \A q \in 1..(p - 1) : attrs[q].h = 0
    ELSE 0

\* getTraceSpan: the span found (0 = nil), the key it was found under and the
\* remaining attributes
getTraceSpan(attrs) ==
    LET p == FirstSpanPos(attrs) IN
    IF p = 0 THEN [span |-> 0, pos |-> 0, key |-> "", attrs |-> attrs]
    ELSE [span |-> attrs[p].h, pos |-> p, key |-> attrs[p].key,
          attrs |-> SlicesDelete(attrs, p - 1, p)]

\* otel.Tracer(traceName).Start(ctx, spanName): the new span is a child of the
\* span ctx carries.  Without a recording provider the span is a non-recording
\* wrapper of the parent's span context.
startChild(p, sp, rec, ctx, traceName, spanName, owner) ==
    IF p = Panic
    THEN [panicked |-> TRUE, sp |-> sp, span |-> 0, ctx |-> ctx,
          tracerName |-> traceName, spanName |-> spanName]
    ELSE LET s == Len(sp) + 1
             ptrace == IF p > 0 THEN sp[p].trace ELSE 0
             psid == IF p > 0 THEN sp[p].sid ELSE 0
         IN [panicked |-> FALSE,
             sp |-> Append(sp,
                      [trace |-> IF ~rec THEN ptrace
                                 ELSE IF ptrace # 0 THEN ptrace ELSE s,
                       sid |-> IF rec THEN s ELSE psid,
                       parent |-> psid,
                       rec |-> rec,
                       owner |-> owner,
                       events |-> <<>>,
                       status |-> [code |-> "Unset", desc |-> ""],
                       ended |-> FALSE,
                       pctx |-> ctx]),
             span |-> s,
             ctx |-> WithSpanCtx(s),
             tracerName |-> traceName, spanName |-> spanName]

TracerStart(hs, sp, rec, ctx, traceName, spanName, owner) ==
    startChild(SpanFromContext(hs, ctx), sp, rec, ctx, traceName, spanName, owner)

\* the gate with the comparison the wrong way round
ShouldStartInverted(level, traceLevel, must) == level <= traceLevel \/ must

\* the gate of traceStart
ShouldStart(level, traceLevel, must) == level >= traceLevel \/ must

\* lines 178-180 of traceStart: the handle takes the span and the context that
\* Start returned (r), and is itself the context returned
bindStarted(r, hs, sp, ctx, hid) ==
    IF r.panicked
    THEN [panicked |-> TRUE, hs |-> hs, sp |-> sp, ctx |-> ctx,
          started |-> 0, tracerName |-> r.tracerName]
    ELSE [panicked |-> FALSE,
          hs |-> [hs EXCEPT ![hid].Context = r.ctx, ![hid].Span = r.span],
          sp |-> r.sp, ctx |-> HandleCtx(hid), started |-> r.span,
          tracerName |-> r.tracerName]

\* traceStart(ctx, level, span) for a non-nil span hid
traceStart(h, hs, sp, rec, ctx, level, hid) ==
    IF ShouldStart(level, h.traceLevel, hs[hid].must)
    THEN bindStarted(TracerStart(hs, sp, rec, ctx, hs[hid].traceName,
                                 hs[hid].spanName, hid),
                     hs, sp, ctx, hid)
    ELSE [panicked |-> FALSE, hs |-> hs, sp |-> sp, ctx |-> ctx, started |-> 0,
          tracerName |-> ""]

\* what handleTrace returns after traceStart (t) on the handle it resolved
traced(t, attrs, found, pos, ambient, base) ==
    [panicked |-> t.panicked, hs |-> t.hs, sp |-> t.sp, ctx |-> t.ctx,
     attrs |-> attrs, found |-> found, pos |-> pos, ambient |-> ambient,
     base |-> base, started |-> t.started, tracerName |-> t.tracerName]

\* lines 151-160: the record carries a span handle (g, from getTraceSpan, which
\* has set span.traceName at line 207); its bound Context wins over ctx
traceAttrHandle(h, hs, sp, rec, ctx, level, g) ==
    traced(traceStart(h, [hs EXCEPT ![g.span].traceName = g.key], sp, rec,
                      IF hs[g.span].Context.k # "nil"
                      THEN hs[g.span].Context ELSE ctx,
                      level, g.span),
           g.attrs, g.span, g.pos, 0,
           IF hs[g.span].Context.k # "nil" THEN hs[g.span].Context ELSE ctx)

\* lines 162-168: ctx is itself a span handle; a nil Context becomes Background
traceCtxHandle(h, hs, sp, rec, ctx, level, recAttrs) ==
    traced(traceStart(h,
                      IF hs[ctx.id].Context.k = "nil"
                      THEN [hs EXCEPT ![ctx.id].Context = Background] ELSE hs,
                      sp, rec,
                      IF hs[ctx.id].Context.k = "nil"
                      THEN Background ELSE hs[ctx.id].Context,
                      level, ctx.id),
           recAttrs, 0, 0, ctx.id,
           IF hs[ctx.id].Context.k = "nil"
           THEN Background ELSE hs[ctx.id].Context)

\* handleTrace trying the ambient span handle before the attributes
traceWithCtxFirst(g, h, hs, sp, rec, ctx, level, recAttrs) ==
    IF ctx.k = "handle"
    THEN traceCtxHandle(h, hs, sp, rec, ctx, level, recAttrs)
    ELSE IF g.span # 0
    THEN traceAttrHandle(h, hs, sp, rec, ctx, level, g)
    ELSE [panicked |-> FALSE, hs |-> hs, sp |-> sp, ctx |-> ctx,
          attrs |-> recAttrs, found |-> 0, pos |-> 0, ambient |-> 0,
          base |-> ctx, started |-> 0, tracerName |-> ""]

\* handleTrace(ctx, record) once getTraceSpan has returned g
traceWith(g, h, hs, sp, rec, ctx, level, recAttrs) ==
    IF g.span # 0
    THEN traceAttrHandle(h, hs, sp, rec, ctx, level, g)
    ELSE IF ctx.k = "handle"
    THEN traceCtxHandle(h, hs, sp, rec, ctx, level, recAttrs)
    ELSE [panicked |-> FALSE, hs |-> hs, sp |-> sp, ctx |-> ctx,
          attrs |-> recAttrs, found |-> 0, pos |-> 0, ambient |-> 0,
          base |-> ctx, started |-> 0, tracerName |-> ""]

\* handleTrace(ctx, record): the context and the record that go on to
\* handleSpan, and the handles and spans as it leaves them
handleTrace(h, hs, sp, rec, ctx, level, recAttrs) ==
    traceWith(getTraceSpan(collectAttributes(h, recAttrs)),
              h, hs, sp, rec, ctx, level, recAttrs)

LevelString(level) ==
    CASE level = LevelDebug -> "DEBUG"
      [] level = LevelInfo -> "INFO"
      [] level = LevelWarn -> "WARN"
      [] level = LevelError -> "ERROR"
      [] level = LevelAboveError -> "ERROR+4"
      [] OTHER -> "LEVEL"

\* an attribute.KeyValue: key, type of the value, value
KV(key, type, val) == [key |-> key, type |-> type, val |-> val]

\* time.Second as a time.Duration, a count of nanoseconds
Second == 1000000000

\* decimal digits of n, at least two of them
Pad2(n) == IF n < 10 THEN "0" \o ToString(n) ELSE ToString(n)

\* t.Format(time.RFC3339) for a UTC time with a four-digit year
FormatRFC3339(t) ==
    ToString(t.year) \o "-" \o Pad2(t.month) \o "-" \o Pad2(t.day) \o "T"
    \o Pad2(t.hour) \o ":" \o Pad2(t.min) \o ":" \o Pad2(t.sec) \o "Z"

\* the time of the records of the model
RecordTime ==
    [year |-> 2023, month |-> 1, day |-> 1, hour |-> 0, min |-> 0, sec |-> 0]

\* fmt.Sprintf("%+v", v) for the values of the model: a number in decimal, the
\* nil value, a *SpanContext (its fields, abstracted to one text), and any
\* other value by the text it prints as
SprintfPlusV(attr) ==
    IF attr.kind = "Uint64" THEN ToString(attr.val)
    ELSE IF attr.val.go = "*SpanContext" THEN "%+v"
    ELSE IF attr.val.go = "nil" THEN "<nil>"
    ELSE attr.val.text

\* convertAnyValue(key, value): the slice types have their own attribute
\* types, every other value is formatted
convertAnyValue(key, attr) ==
    CASE attr.val.go = "[]string" -> KV(key, "STRINGSLICE", attr.val.elems)
      [] attr.val.go = "[]int" -> KV(key, "INT64SLICE", attr.val.elems)
      [] attr.val.go = "[]int64" -> KV(key, "INT64SLICE", attr.val.elems)
      [] attr.val.go = "[]float64" -> KV(key, "FLOAT64SLICE", attr.val.elems)
      [] attr.val.go = "[]bool" -> KV(key, "BOOLSLICE", attr.val.elems)
      [] OTHER -> KV(key, "STRING", SprintfPlusV(attr))

\* the concatenation of a sequence of sequences
RECURSIVE Concat(_)
Concat(seqs) == IF seqs = <<>> THEN <<>> ELSE Head(seqs) \o Concat(Tail(seqs))

\* the key convertAttrs gives the attribute (lines 297-300)
PrefixedKey(k, groupKeys) ==
    IF Len(groupKeys) > 0 THEN Join(groupKeys) \o "." \o k ELSE k

\* convertAttrs dividing a duration down to seconds
RECURSIVE convertAttrsSeconds(_, _)
convertAttrsSeconds(attr, groupKeys) ==
    CASE attr.kind = "Bool" ->
            << KV(PrefixedKey(attr.key, groupKeys), "BOOL", attr.val) >>
      [] attr.kind = "Duration" ->
            << KV(PrefixedKey(attr.key, groupKeys), "INT64", attr.val \div Second) >>
      [] attr.kind = "Float64" ->
            << KV(PrefixedKey(attr.key, groupKeys), "FLOAT64", attr.val) >>
      [] attr.kind = "Int64" ->
            << KV(PrefixedKey(attr.key, groupKeys), "INT64", attr.val) >>
      [] attr.kind = "String" ->
            << KV(PrefixedKey(attr.key, groupKeys), "STRING", attr.val) >>
      [] attr.kind = "Time" ->
            << KV(PrefixedKey(attr.key, groupKeys), "STRING",
                  FormatRFC3339(attr.val)) >>
      [] attr.kind = "Group" ->
            Concat([n \in 1..Len(attr.val) |->
                       convertAttrsSeconds(attr.val[n],
                                           << PrefixedKey(attr.key, groupKeys) >>)])
      [] attr.kind = "Any" ->
            << convertAnyValue(PrefixedKey(attr.key, groupKeys), attr) >>
      [] OTHER ->
            << KV(PrefixedKey(attr.key, groupKeys), "STRING", SprintfPlusV(attr)) >>

\* convertAttrs giving the attributes of a group the key of the group alone
RECURSIVE convertAttrsGroupKeyOnly(_, _)
convertAttrsGroupKeyOnly(attr, groupKeys) ==
    CASE attr.kind = "Bool" ->
            << KV(PrefixedKey(attr.key, groupKeys), "BOOL", attr.val) >>
      [] attr.kind = "Duration" ->
            << KV(PrefixedKey(attr.key, groupKeys), "INT64", attr.val) >>
      [] attr.kind = "Float64" ->
            << KV(PrefixedKey(attr.key, groupKeys), "FLOAT64", attr.val) >>
      [] attr.kind = "Int64" ->
            << KV(PrefixedKey(attr.key, groupKeys), "INT64", attr.val) >>
      [] attr.kind = "String" ->
            << KV(PrefixedKey(attr.key, groupKeys), "STRING", attr.val) >>
      [] attr.kind = "Time" ->
            << KV(PrefixedKey(attr.key, groupKeys), "STRING",
                  FormatRFC3339(attr.val)) >>
      [] attr.kind = "Group" ->
            Concat([n \in 1..Len(attr.val) |->
                       convertAttrsGroupKeyOnly(attr.val[n], << attr.key >>)])
      [] attr.kind = "Any" ->
            << convertAnyValue(PrefixedKey(attr.key, groupKeys), attr) >>
      [] OTHER ->
            << KV(PrefixedKey(attr.key, groupKeys), "STRING", SprintfPlusV(attr)) >>

\* convertAttrs(attr, handler, groupKeys...): the pairs handed to handler, in
\* order.  KindUint64 has no case of its own (lines 317-318 are commented out)
\* and takes the default
RECURSIVE convertAttrs(_, _)
convertAttrs(attr, groupKeys) ==
    CASE attr.kind = "Bool" ->
            << KV(PrefixedKey(attr.key, groupKeys), "BOOL", attr.val) >>
      [] attr.kind = "Duration" ->
            << KV(PrefixedKey(attr.key, groupKeys), "INT64", attr.val) >>
      [] attr.kind = "Float64" ->
            << KV(PrefixedKey(attr.key, groupKeys), "FLOAT64", attr.val) >>
      [] attr.kind = "Int64" ->
            << KV(PrefixedKey(attr.key, groupKeys), "INT64", attr.val) >>
      [] attr.kind = "String" ->
            << KV(PrefixedKey(attr.key, groupKeys), "STRING", attr.val) >>
      [] attr.kind = "Time" ->
            << KV(PrefixedKey(attr.key, groupKeys), "STRING",
                  FormatRFC3339(attr.val)) >>
      [] attr.kind = "Group" ->
            Concat([n \in 1..Len(attr.val) |->
                       convertAttrs(attr.val[n],
                                    << PrefixedKey(attr.key, groupKeys) >>)])
      [] attr.kind = "Any" ->
            << convertAnyValue(PrefixedKey(attr.key, groupKeys), attr) >>
      [] OTHER ->
            << KV(PrefixedKey(attr.key, groupKeys), "STRING", SprintfPlusV(attr)) >>

\* collectEventAttributes without the time field
collectEventAttributesNoTime(h, arrs, level, msg, attrs) ==
    Concat([n \in 1..Len(attrs) |->
               convertAttrs(attrs[n], Elems(arrs, h.groupKeys))])
    \o << KV("msg", "STRING", msg),
          KV("level", "STRING", LevelString(level)) >>

\* collectEventAttributes(record): no pair convertAttrs produces is the zero
\* KeyValue that line 258 drops
collectEventAttributes(h, arrs, level, msg, attrs) ==
    Concat([n \in 1..Len(attrs) |->
               convertAttrs(attrs[n], Elems(arrs, h.groupKeys))])
    \o << KV("msg", "STRING", msg),
          KV("level", "STRING", LevelString(level)),
          KV("time", "STRING", FormatRFC3339(RecordTime)) >>

\* addTraceIDs writing the default key names whatever the options say
addTraceIDsFixedKeys(h, sp, s) ==
    (IF sp[s].trace # 0 THEN << StrAttr("trace_id", ToString(sp[s].trace)) >>
     ELSE <<>>)
    \o (IF sp[s].sid # 0 THEN << StrAttr("span_id", ToString(sp[s].sid)) >>
        ELSE <<>>)

\* addTraceIDs(span, record): the attributes added to the record
addTraceIDs(h, sp, s) ==
    (IF sp[s].trace # 0 THEN << StrAttr(h.traceIDKey, ToString(sp[s].trace)) >>
     ELSE <<>>)
    \o (IF sp[s].sid # 0 THEN << StrAttr(h.spanIDKey, ToString(sp[s].sid)) >>
        ELSE <<>>)

\* an event of a span: the name it was added under and the message of the
\* record it was made from
Event(name, msg) == [name |-> name, msg |-> msg]

\* setSpanStatus treating every level from LevelError up as an error
setSpanStatusFromError(status, level, msg) ==
    IF level >= LevelError THEN [code |-> "Error", desc |-> msg] ELSE status

\* setSpanStatus(span, record)
setSpanStatus(status, level, msg) ==
    IF level = LevelError THEN [code |-> "Error", desc |-> msg] ELSE status

\* handleSpan returning early when span events are disabled
recordOnEventsOnly(s, h, arrs, sp, level, msg, attrs) ==
    IF s = Panic
    THEN [panicked |-> TRUE, sp |-> sp, attrs |-> attrs, active |-> 0,
          event |-> FALSE, ev |-> <<>>]
    ELSE IF ~IsRecording(sp, s) \/ ~h.spanEvent
    THEN [panicked |-> FALSE, sp |-> sp, attrs |-> attrs, active |-> 0,
          event |-> FALSE, ev |-> <<>>]
    ELSE [panicked |-> FALSE,
          sp |-> [sp EXCEPT ![s].events = Append(@, Event(h.spanEventKey, msg)),
                            ![s].status = setSpanStatus(@, level, msg)],
          attrs |-> attrs \o addTraceIDs(h, sp, s),
          active |-> s, event |-> TRUE,
          ev |-> collectEventAttributes(h, arrs, level, msg, attrs)]

\* handleSpan putting the new event before the events the span has
recordOnPrepending(s, h, arrs, sp, level, msg, attrs) ==
    IF s = Panic
    THEN [panicked |-> TRUE, sp |-> sp, attrs |-> attrs, active |-> 0,
          event |-> FALSE, ev |-> <<>>]
    ELSE IF ~IsRecording(sp, s)
    THEN [panicked |-> FALSE, sp |-> sp, attrs |-> attrs, active |-> 0,
          event |-> FALSE, ev |-> <<>>]
    ELSE [panicked |-> FALSE,
          sp |-> [sp EXCEPT ![s].events = IF h.spanEvent
                                          THEN << Event(h.spanEventKey, msg) >> \o @
                                          ELSE @,
                            ![s].status = setSpanStatus(@, level, msg)],
          attrs |-> attrs \o addTraceIDs(h, sp, s),
          active |-> s, event |-> h.spanEvent,
          ev |-> IF h.spanEvent
                 THEN collectEventAttributes(h, arrs, level, msg, attrs)
                 ELSE <<>>]

\* handleSpan ending the span on which it has set an error status
recordOnEndingOnError(s, h, arrs, sp, level, msg, attrs) ==
    IF s = Panic
    THEN [panicked |-> TRUE, sp |-> sp, attrs |-> attrs, active |-> 0,
          event |-> FALSE, ev |-> <<>>]
    ELSE IF ~IsRecording(sp, s)
    THEN [panicked |-> FALSE, sp |-> sp, attrs |-> attrs, active |-> 0,
          event |-> FALSE, ev |-> <<>>]
    ELSE [panicked |-> FALSE,
          sp |-> [sp EXCEPT ![s].events = IF h.spanEvent
                                          THEN Append(@, Event(h.spanEventKey, msg))
                                          ELSE @,
                            ![s].status = setSpanStatus(@, level, msg),
                            ![s].ended = (level = LevelError)],
          attrs |-> attrs \o addTraceIDs(h, sp, s),
          active |-> s, event |-> h.spanEvent,
          ev |-> IF h.spanEvent
                 THEN collectEventAttributes(h, arrs, level, msg, attrs)
                 ELSE <<>>]

\* lines 228-237 of handleSpan, s being trace.SpanFromContext(ctx)
recordOn(s, h, arrs, sp, level, msg, attrs) ==
    IF s = Panic
    THEN [panicked |-> TRUE, sp |-> sp, attrs |-> attrs, active |-> 0,
          event |-> FALSE, ev |-> <<>>]
    ELSE IF ~IsRecording(sp, s)
    THEN [panicked |-> FALSE, sp |-> sp, attrs |-> attrs, active |-> 0,
          event |-> FALSE, ev |-> <<>>]
    ELSE \* span.AddEvent(h.spanEventKey, attributes): the span keeps the names
         \* of its events in order; ev is the event this call adds
         [panicked |-> FALSE,
          sp |-> [sp EXCEPT ![s].events = IF h.spanEvent
                                          THEN Append(@, Event(h.spanEventKey, msg))
                                          ELSE @,
                            ![s].status = setSpanStatus(@, level, msg)],
          attrs |-> attrs \o addTraceIDs(h, sp, s),
          active |-> s, event |-> h.spanEvent,
          ev |-> IF h.spanEvent
                 THEN collectEventAttributes(h, arrs, level, msg, attrs)
                 ELSE <<>>]

\* handleSpan(ctx, &record)
handleSpan(h, arrs, hs, sp, ctx, level, msg, attrs) ==
    recordOn(SpanFromContext(hs, ctx), h, arrs, sp, level, msg, attrs)

\* nextHandle(ctx, record): whether the record reaches the sink, and the result
nextHandle(h, level) ==
    IF ~h.Next.nil /\ SinkEnabled(h.Next, level)
    THEN [forwarded |-> TRUE, err |-> h.Next.err]
    ELSE [forwarded |-> FALSE, err |-> FALSE]

\* Span.End() that ends the children of the span with it
SpanEndWithChildren(sp, s) ==
    IF IsRecording(sp, s)
    THEN [x \in 1..Len(sp) |->
             IF x = s \/ (sp[x].rec /\ sp[x].parent = sp[s].sid)
             THEN [sp[x] EXCEPT !.ended = TRUE] ELSE sp[x]]
    ELSE sp

\* SpanContext.End(): the spans afterwards.  Span.End() of the tracing SDK
\* ends a recording span once and is a no-op on any other span.
SpanEnd(sp, s) == IF IsRecording(sp, s) THEN [sp EXCEPT ![s].ended = TRUE] ELSE sp

\* End without the nil check on the embedded Span
SpanContextEndUnchecked(hs, sp, hid) ==
    IF hs[hid].Span # 0
    THEN [panicked |-> FALSE, sp |-> SpanEnd(sp, hs[hid].Span)]
    ELSE [panicked |-> TRUE, sp |-> sp]

SpanContextEnd(hs, sp, hid) ==
    IF hs[hid].Span # 0
    THEN [panicked |-> FALSE, sp |-> SpanEnd(sp, hs[hid].Span)]
    ELSE [panicked |-> FALSE, sp |-> sp]

\* ctx.Done() on a context: a context made by trace.ContextWithSpan passes the
\* call to the context it was made from (pctx), a *SpanContext runs its own
\* Done (End, then Done on its embedded Context), and a nil Context fails
RECURSIVE ContextDone(_, _, _)
ContextDone(hs, sp, c) ==
    CASE c.k = "nil" -> [panicked |-> TRUE, sp |-> sp]
      [] c.k = "span" -> ContextDone(hs, sp, sp[c.id].pctx)
      [] c.k = "handle" ->
            ContextDone(hs, SpanContextEnd(hs, sp, c.id).sp, hs[c.id].Context)
      [] OTHER -> [panicked |-> FALSE, sp |-> sp]

\* SpanContext.Done(): s.End(), then s.Context.Done()
SpanContextDone(hs, sp, hid) == ContextDone(hs, sp, HandleCtx(hid))

----------------------------------------------------------------------------
(* The state machine *)

TraceNames == {"svc"}
PlainAttrs == {StrAttr("k1", "v1")}
Msg == "m"

\* sequences over S of length at most n
SeqsUpTo(S, n) == UNION {[1..m -> S] : m \in 0..n}

Ended(sp) == {s \in 1..Len(sp) : sp[s].ended}
OwnedBy(sp, hid) == {s \in 1..Len(sp) : sp[s].owner = hid}
Path(i) == Elems(arrays, handlers[i].groupKeys)

\* the contexts an application can pass to a log call: the background context,
\* a span handle, or the context of a handle's live span (its Context field)
Contexts ==
    {Background} \cup {HandleCtx(h) : h \in 1..Len(handles)}
                 \cup {handles[h].Context : h \in {x \in 1..Len(handles) :
                                                     handles[x].Span # 0}}

\* the contexts it binds a new span handle to
BoundContexts == {Background} \cup {HandleCtx(h) : h \in 1..Len(handles)}

AttrChoices == PlainAttrs \cup {SpanAttrib("op", h) : h \in 1..Len(handles)}
RecAttrLists == SeqsUpTo(AttrChoices, MaxRecAttrs)
ForkAttrLists ==
    {<<a>> : a \in AttrChoices}
    \cup {<<a, SpanAttrib("op", h)>> : a \in PlainAttrs, h \in 1..Len(handles)}

\* the record of a call: its inputs (handler, ctx, level, attrs, name), the
\* handles and spans as the call found them, and its outcome
NoCall ==
    [op |-> "none", handler |-> 0, handle |-> 0, ctx |-> NilCtx, level |-> 0,
     attrs |-> <<>>, name |-> "", panicked |-> FALSE,
     found |-> 0, pos |-> 0, ambient |-> 0, outCtx |-> NilCtx,
     started |-> 0, tracerName |-> "", stripped |-> <<>>,
     preHandles |-> <<>>, preSpans |-> <<>>,
     active |-> 0, event |-> FALSE, ev |-> <<>>,
     forwarded |-> FALSE, fwd |-> <<>>, err |-> FALSE, child |-> 0,
     enabled |-> FALSE, msg |-> "", preHandlers |-> <<>>, preArrays |-> <<>>,
     tree |-> ZeroAttr, prefix |-> <<>>, pairs |-> <<>>]

\* the programs modelled: the options given to NewHandler, the wrapped sink
\* and the tracer provider installed
Setups ==
    {[next |-> Sink(LevelInfo, FALSE), tl |-> LevelInfo, se |-> TRUE,
      custom |-> FALSE, tracer |-> TRUE],
     [next |-> Sink(LevelInfo, FALSE), tl |-> LevelInfo, se |-> FALSE,
      custom |-> TRUE, tracer |-> TRUE],
     [next |-> Sink(LevelInfo, TRUE), tl |-> LevelWarn, se |-> TRUE,
      custom |-> TRUE, tracer |-> TRUE],
     [next |-> Sink(LevelInfo, FALSE), tl |-> LevelWarn, se |-> FALSE,
      custom |-> FALSE, tracer |-> TRUE],
     [next |-> NilSink, tl |-> LevelInfo, se |-> TRUE,
      custom |-> FALSE, tracer |-> TRUE],
     [next |-> Sink(LevelInfo, TRUE), tl |-> LevelInfo, se |-> TRUE,
      custom |-> FALSE, tracer |-> FALSE]}

Init ==
    \E c \in Setups :
        /\ handlers = << NewHandler(c.next, c.tl, c.se, c.custom) >>
        /\ tracer = c.tracer
        /\ arrays = <<>>
        /\ handles = <<>>
        /\ spans = <<>>
        /\ last = NoCall
        /\ nops = 0
        /\ calls = <<>>

NewHandle(ctx, traceName, must) ==
    /\ Len(handles) < MaxHandles
    /\ handles' = Append(handles, [Span |-> 0, Context |-> ctx,
                                   traceName |-> traceName, spanName |-> "span",
                                   must |-> must])
    /\ last' = [NoCall EXCEPT !.op = "New", !.handle = Len(handles) + 1]
    /\ UNCHANGED <<handlers, arrays, spans, tracer>>

NewSpanContext == \E tn \in TraceNames : NewHandle(NilCtx, tn, FALSE)
NewMustSpanContext == \E tn \in TraceNames : NewHandle(NilCtx, tn, TRUE)
NewSpanContextWithContext ==
    \E tn \in TraceNames, c \in BoundContexts : NewHandle(c, tn, FALSE)
NewMustSpanContextWithContext ==
    \E tn \in TraceNames, c \in BoundContexts : NewHandle(c, tn, TRUE)

\* Enabled asking the wrapped sink
EnabledOfSink(i, level) ==
    /\ last' = [NoCall EXCEPT !.op = "Enabled", !.handler = i, !.level = level,
                              !.panicked = handlers[i].Next.nil,
                              !.enabled = /\ ~handlers[i].Next.nil
                                          /\ SinkEnabled(handlers[i].Next, level),
                              !.preSpans = spans]
    /\ UNCHANGED <<handlers, arrays, handles, spans, tracer>>

\* Enabled(ctx, level) on handlers[i]: true, whatever the level and the sink
Enabled(i, level) ==
    /\ last' = [NoCall EXCEPT !.op = "Enabled", !.handler = i, !.level = level,
                              !.enabled = TRUE, !.preSpans = spans]
    /\ UNCHANGED <<handlers, arrays, handles, spans, tracer>>

EnabledAny == \E i \in 1..Len(handlers), level \in Levels : Enabled(i, level)

\* Handle(ctx, record) on handlers[i], the record having the message msg:
\* handleTrace, handleSpan, nextHandle
HandleRecord(i, ctx, level, msg, recAttrs) ==
    \E t \in {handleTrace(handlers[i], handles, spans, tracer, ctx, level, recAttrs)} :
    \E r \in {handleSpan(handlers[i], arrays, t.hs, t.sp, t.ctx, level, msg, t.attrs)} :
    \E n \in {nextHandle(handlers[i], level)} :
    \E ok \in {~t.panicked /\ ~r.panicked} :
       /\ handles' = t.hs
       /\ spans' = IF ok THEN r.sp ELSE t.sp
       /\ last' = [NoCall EXCEPT
                     !.op = "Handle", !.handler = i, !.ctx = ctx, !.level = level,
                     !.msg = msg,
                     !.attrs = recAttrs, !.panicked = ~ok,
                     !.handle = IF t.found # 0 THEN t.found ELSE t.ambient,
                     !.found = t.found, !.pos = t.pos, !.ambient = t.ambient,
                     !.outCtx = t.ctx, !.started = t.started,
                     !.tracerName = t.tracerName, !.stripped = t.attrs,
                     !.preHandles = handles, !.preSpans = spans,
                     !.active = IF ok THEN r.active ELSE 0,
                     !.event = ok /\ r.event,
                     !.ev = IF ok THEN r.ev ELSE <<>>,
                     !.forwarded = ok /\ n.forwarded,
                     !.fwd = IF ok /\ n.forwarded THEN r.attrs ELSE <<>>,
                     !.err = ok /\ n.err]
       /\ UNCHANGED <<handlers, arrays, tracer>>

\* Handle(ctx, record) with a record whose message is Msg
Handle(i, ctx, level, recAttrs) == HandleRecord(i, ctx, level, Msg, recAttrs)

HandleAny ==
    \E i \in 1..Len(handlers), ctx \in Contexts, level \in Levels,
       recAttrs \in RecAttrLists : Handle(i, ctx, level, recAttrs)

\* SpanContext.End() on handles[hid]
End ==
    \E hid \in 1..Len(handles) :
        \E e \in {SpanContextEnd(handles, spans, hid)} :
        /\ spans' = e.sp
        /\ last' = [NoCall EXCEPT !.op = "End", !.handle = hid,
                                  !.panicked = e.panicked,
                                  !.preHandles = handles, !.preSpans = spans]
        /\ UNCHANGED <<handlers, arrays, handles, tracer>>

\* SpanContext.Done() on handles[hid]
Done ==
    \E hid \in 1..Len(handles) :
        \E e \in {SpanContextDone(handles, spans, hid)} :
        /\ spans' = e.sp
        /\ last' = [NoCall EXCEPT !.op = "Done", !.handle = hid,
                                  !.panicked = e.panicked,
                                  !.preHandles = handles, !.preSpans = spans]
        /\ UNCHANGED <<handlers, arrays, handles, tracer>>

\* WithAttrs leaving the minimum trace level of the new Handler at its zero
\* value
WithAttrsZeroLevel ==
    \E i \in 1..Len(handlers), attrs \in ForkAttrLists :
        /\ handlers' = Append(handlers, [handlers[i] EXCEPT
                                            !.attrs = attrs,
                                            !.attrsAt = Len(handlers[i].path0),
                                            !.traceLevel = LevelInfo])
        /\ last' = [NoCall EXCEPT !.op = "WithAttrs", !.handler = i,
                                  !.attrs = attrs, !.child = Len(handlers) + 1,
                                  !.preHandlers = handlers,
                                  !.preArrays = arrays, !.preSpans = spans]
        /\ UNCHANGED <<arrays, handles, spans, tracer>>

\* WithAttrs adding the given attributes to the parent's
WithAttrsExtending ==
    \E i \in 1..Len(handlers), attrs \in ForkAttrLists :
        /\ handlers' = Append(handlers, [handlers[i] EXCEPT
                                            !.attrs = handlers[i].attrs \o attrs,
                                            !.attrsAt = Len(handlers[i].path0)])
        /\ last' = [NoCall EXCEPT !.op = "WithAttrs", !.handler = i,
                                  !.attrs = attrs, !.child = Len(handlers) + 1,
                                  !.preHandlers = handlers,
                                  !.preArrays = arrays, !.preSpans = spans]
        /\ UNCHANGED <<arrays, handles, spans, tracer>>

\* WithAttrs(attrs): a new Handler with the given attributes
WithAttrs ==
    \E i \in 1..Len(handlers), attrs \in ForkAttrLists :
        /\ handlers' = Append(handlers, [handlers[i] EXCEPT
                                            !.attrs = attrs,
                                            !.attrsAt = Len(handlers[i].path0)])
        /\ last' = [NoCall EXCEPT !.op = "WithAttrs", !.handler = i,
                                  !.attrs = attrs, !.child = Len(handlers) + 1,
                                  !.preHandlers = handlers,
                                  !.preArrays = arrays, !.preSpans = spans]
        /\ UNCHANGED <<arrays, handles, spans, tracer>>

\* WithGroup(name): append runs first, then h.Next.WithGroup(name), which
\* fails on a nil Next
WithGroup ==
    \E i \in 1..Len(handlers), name \in GroupNames :
        \E a \in {GoAppend(arrays, handlers[i].groupKeys, name)} :
        \E h \in {handlers[i]} :
           IF h.Next.nil
           THEN /\ arrays' = IF a.sl.arr = h.groupKeys.arr THEN a.arrs ELSE arrays
                /\ last' = [NoCall EXCEPT !.op = "WithGroup", !.handler = i,
                                          !.name = name, !.panicked = TRUE,
                                          !.preSpans = spans]
                /\ UNCHANGED <<handlers, handles, spans, tracer>>
           ELSE /\ arrays' = a.arrs
                /\ handlers' = Append(handlers,
                     [h EXCEPT !.groupKeys = a.sl,
                               !.Next.groups = Append(@, name),
                               !.path0 = Append(h.path0, name)])
                /\ last' = [NoCall EXCEPT !.op = "WithGroup", !.handler = i,
                                          !.name = name,
                                          !.child = Len(handlers) + 1,
                                          !.preSpans = spans]
                /\ UNCHANGED <<handles, spans, tracer>>

\* the call returns and the application goes on
Return ==
    /\ last.op # "none"
    /\ last' = NoCall
    /\ UNCHANGED <<handlers, arrays, handles, spans, tracer, nops, calls>>

\* the application is between calls and makes one more
Ready ==
    /\ last.op = "none"
    /\ nops < MaxOps
    /\ nops' = nops + 1
    /\ UNCHANGED calls

Next ==
    \/ Ready /\ NewSpanContext
    \/ Ready /\ NewMustSpanContext
    \/ Ready /\ NewSpanContextWithContext
    \/ Ready /\ NewMustSpanContextWithContext
    \/ Ready /\ EnabledAny
    \/ Ready /\ HandleAny
    \/ Ready /\ End
    \/ Ready /\ WithAttrs
    \/ Ready /\ WithGroup
    \/ Return

Spec == Init /\ [][Next]_vars

\* the forking operations alone, to a greater depth
ReadyFork ==
    /\ last.op = "none"
    /\ Len(handlers) < MaxForkHandlers
    /\ nops' = nops
    /\ UNCHANGED calls

NextFork ==
    \/ ReadyFork /\ WithAttrs
    \/ ReadyFork /\ WithGroup
    \/ Return

SpecFork == Init /\ [][NextFork]_vars

\* the life of span handles, to a greater depth: handles are constructed,
\* logged (alone, as the one attribute of a record or as its context), ended
\* and waited for with Done
LifeLevels == {LevelInfo}
LifeMsgs == {"m", "n"}
LifeAttrLists == {<<>>} \cup {<< SpanAttrib("op", h) >> : h \in 1..Len(handles)}

HandleLife ==
    \E i \in 1..Len(handlers), ctx \in Contexts, level \in LifeLevels,
       msg \in LifeMsgs, recAttrs \in LifeAttrLists :
          HandleRecord(i, ctx, level, msg, recAttrs)

ReadyLife ==
    /\ last.op = "none"
    /\ nops < MaxLifeOps
    /\ nops' = nops + 1
    /\ UNCHANGED calls

NextLife ==
    \/ ReadyLife /\ NewSpanContext
    \/ ReadyLife /\ NewSpanContextWithContext
    \/ ReadyLife /\ HandleLife
    \/ ReadyLife /\ End
    \/ ReadyLife /\ Done
    \/ Return

SpecLife == Init /\ [][NextLife]_vars

----------------------------------------------------------------------------
(* convertAttrs as a function of its arguments: an attribute, which may be *)
(* a group of attributes to any depth, and the group keys it is called     *)
(* with.                                                                   *)

Leaf(k, kind, v) == [key |-> k, kind |-> kind, val |-> v, h |-> 0]
Group(k, kids) == [key |-> k, kind |-> "Group", val |-> kids, h |-> 0]

\* one attribute of every kind that is not a group: slog.Bool, slog.Duration
\* (two seconds), slog.Float64, slog.Int64, slog.String, slog.Time,
\* slog.Uint64 and slog.Any of a []string and of an error
ConvLeaves ==
    {Leaf("k", "Bool", TRUE),
     Leaf("k", "Duration", 2 * Second),
     Leaf("k", "Float64", [float |-> "3.14"]),
     Leaf("k", "Int64", 42),
     Leaf("k", "String", "v"),
     Leaf("k", "Time", [year |-> 2024, month |-> 2, day |-> 29,
                        hour |-> 13, min |-> 5, sec |-> 9]),
     Leaf("k", "Uint64", 100),
     Leaf("k", "Any", [go |-> "[]string", elems |-> <<"x", "y">>]),
     Leaf("k", "Any", [go |-> "error", text |-> "boom"])}

\* the attributes put into groups
GroupLeaves ==
    {Leaf("k", "String", "v"), Leaf("j", "Int64", 42),
     Leaf("d", "Duration", 2 * Second)}

\* groups of leaves, groups of leaves and groups, and one group three deep
Groups1 == {Group("g", kids) : kids \in SeqsUpTo(GroupLeaves, MaxKids)}
Groups2 ==
    {Group("h", kids) : kids \in SeqsUpTo(GroupLeaves \cup Groups1, MaxKids)}
DeepGroup ==
    Group("a", << Group("b", << Group("c", << Leaf("k", "String", "v") >>),
                                Leaf("j", "Int64", 42) >>) >>)

ConvTrees == ConvLeaves \cup Groups1 \cup Groups2 \cup {DeepGroup}
ConvPrefixes == {<<>>, <<"log">>, <<"a", "log">>}

InitConvert ==
    \E t \in ConvTrees, p \in ConvPrefixes :
        /\ handlers = <<>>
        /\ tracer = TRUE
        /\ arrays = <<>>
        /\ handles = <<>>
        /\ spans = <<>>
        /\ last = [NoCall EXCEPT !.op = "input", !.tree = t, !.prefix = p]
        /\ nops = 0
        /\ calls = <<>>

\* convertAttrs(attr, handler, groupKeys...) with a handler that appends the
\* pairs it is given
ConvertAttrs ==
    /\ last.op = "input"
    /\ last' = [last EXCEPT !.op = "convertAttrs",
                            !.pairs = convertAttrs(last.tree, last.prefix)]
    /\ UNCHANGED <<handlers, arrays, handles, spans, tracer, nops, calls>>

NextConvert == ConvertAttrs

SpecConvert == InitConvert /\ [][NextConvert]_vars

----------------------------------------------------------------------------
(* Two goroutines calling Handle on the same Handler.  Nothing in the      *)
(* package synchronises them, so each read or write of a SpanContext field *)
(* is a step of its own.                                                   *)

Goroutines == {1, 2}

\* a goroutine that has not called Handle yet
Idle ==
    [pc |-> "idle", ctx |-> NilCtx, level |-> 0, attrs |-> <<>>, span |-> 0,
     key |-> "", startCtx |-> NilCtx, r |-> 0, rctx |-> NilCtx]

RaceContexts == {Background, HandleCtx(1)}
RaceLevels == {LevelInfo, LevelError}
RaceAttrLists == {<<>>, << SpanAttrib("op", 1) >>}

\* one SpanContext, constructed with or without a bound context, and a
\* Handler that may have been forked with that SpanContext among its attributes
InitRace ==
    \E c \in Setups, forked \in BOOLEAN, bound \in {NilCtx, Background},
       must \in BOOLEAN :
        /\ handlers = << [NewHandler(c.next, c.tl, c.se, c.custom) EXCEPT
                            !.attrs = IF forked THEN << SpanAttrib("op", 1) >>
                                      ELSE <<>>] >>
        /\ tracer = c.tracer
        /\ arrays = <<>>
        /\ handles = << [Span |-> 0, Context |-> bound, traceName |-> "svc",
                         spanName |-> "span", must |-> must] >>
        /\ spans = <<>>
        /\ last = NoCall
        /\ nops = 0
        /\ calls = [g \in Goroutines |-> Idle]

\* the pc after the gate of traceStart (line 182)
AfterGate(level, hid) ==
    IF ShouldStart(level, handlers[1].traceLevel, handles[hid].must)
    THEN "start" ELSE "span"

\* Handle is called: collectAttributes and the loop of getTraceSpan up to the
\* type assertion of line 206 (h.attrs and the record are read, nothing of a
\* SpanContext is)
GoHandle(g) ==
    /\ calls[g].pc = "idle"
    /\ \E ctx \in RaceContexts, level \in RaceLevels, recAttrs \in RaceAttrLists :
         \E t \in {getTraceSpan(collectAttributes(handlers[1], recAttrs))} :
            calls' = [calls EXCEPT ![g] =
                [Idle EXCEPT
                   !.pc = IF t.span # 0 THEN "setName"
                          ELSE IF ctx.k = "handle" THEN "checkCtx" ELSE "span",
                   !.ctx = ctx, !.level = level,
                   !.attrs = IF t.span # 0 THEN t.attrs ELSE recAttrs,
                   !.span = IF t.span # 0 THEN t.span
                            ELSE IF ctx.k = "handle" THEN ctx.id ELSE 0,
                   !.key = t.key]]
    /\ UNCHANGED <<handlers, arrays, handles, spans, tracer, last, nops>>

\* line 207: span.traceName = attr.Key
GoSetTraceName(g) ==
    /\ calls[g].pc = "setName"
    /\ handles' = [handles EXCEPT ![calls[g].span].traceName = calls[g].key]
    /\ calls' = [calls EXCEPT ![g].pc = "pickCtx"]
    /\ UNCHANGED <<handlers, arrays, spans, tracer, last, nops>>

\* lines 152-155: traceSpan.Context is read and chosen over ctx when not nil
GoPickContext(g) ==
    /\ calls[g].pc = "pickCtx"
    /\ \E c \in {IF handles[calls[g].span].Context.k # "nil"
                 THEN handles[calls[g].span].Context ELSE calls[g].ctx} :
          calls' = [calls EXCEPT ![g].startCtx = c,
                                 ![g].ctx = c,
                                 ![g].pc = AfterGate(calls[g].level, calls[g].span)]
    /\ UNCHANGED <<handlers, arrays, handles, spans, tracer, last, nops>>

\* line 163: spanCtx.Context == nil
GoCheckContext(g) ==
    /\ calls[g].pc = "checkCtx"
    /\ calls' = [calls EXCEPT ![g].pc =
                    IF handles[calls[g].span].Context.k = "nil"
                    THEN "defaultCtx" ELSE "readCtx"]
    /\ UNCHANGED <<handlers, arrays, handles, spans, tracer, last, nops>>

\* line 164: spanCtx.Context = context.Background()
GoDefaultContext(g) ==
    /\ calls[g].pc = "defaultCtx"
    /\ handles' = [handles EXCEPT ![calls[g].span].Context = Background]
    /\ calls' = [calls EXCEPT ![g].pc = "readCtx"]
    /\ UNCHANGED <<handlers, arrays, spans, tracer, last, nops>>

\* line 166: spanCtx.Context is read as the argument of traceStart
GoReadContext(g) ==
    /\ calls[g].pc = "readCtx"
    /\ calls' = [calls EXCEPT ![g].startCtx = handles[calls[g].span].Context,
                              ![g].ctx = handles[calls[g].span].Context,
                              ![g].pc = AfterGate(calls[g].level, calls[g].span)]
    /\ UNCHANGED <<handlers, arrays, handles, spans, tracer, last, nops>>

\* line 183, right-hand side: otel.Tracer(span.traceName).Start(ctx, span.spanName)
GoStart(g) ==
    /\ calls[g].pc = "start"
    /\ \E r \in {TracerStart(handles, spans, tracer, calls[g].startCtx,
                             handles[calls[g].span].traceName,
                             handles[calls[g].span].spanName, calls[g].span)} :
          /\ spans' = r.sp
          /\ calls' = [calls EXCEPT ![g].pc = IF r.panicked THEN "panicked"
                                              ELSE "bind",
                                    ![g].r = r.span, ![g].rctx = r.ctx]
    /\ UNCHANGED <<handlers, arrays, handles, tracer, last, nops>>

\* line 183, left-hand side: span.Context and span.Span are assigned; line
\* 184 returns span as the context
GoBind(g) ==
    /\ calls[g].pc = "bind"
    /\ handles' = [handles EXCEPT ![calls[g].span].Context = calls[g].rctx,
                                  ![calls[g].span].Span = calls[g].r]
    /\ calls' = [calls EXCEPT ![g].pc = "span", ![g].ctx = HandleCtx(calls[g].span)]
    /\ UNCHANGED <<handlers, arrays, spans, tracer, last, nops>>

\* lines 110-114: handleSpan (the span is looked up in ctx) and nextHandle
GoHandleSpan(g) ==
    /\ calls[g].pc = "span"
    /\ \E r \in {handleSpan(handlers[1], arrays, handles, spans, calls[g].ctx,
                            calls[g].level, Msg, calls[g].attrs)} :
          /\ spans' = r.sp
          /\ calls' = [calls EXCEPT ![g].pc = IF r.panicked THEN "panicked"
                                              ELSE "done"]
    /\ UNCHANGED <<handlers, arrays, handles, tracer, last, nops>>

NextRace ==
    \/ \E g \in Goroutines : GoHandle(g)
    \/ \E g \in Goroutines : GoSetTraceName(g)
    \/ \E g \in Goroutines : GoPickContext(g)
    \/ \E g \in Goroutines : GoCheckContext(g)
    \/ \E g \in Goroutines : GoDefaultContext(g)
    \/ \E g \in Goroutines : GoReadContext(g)
    \/ \E g \in Goroutines : GoStart(g)
    \/ \E g \in Goroutines : GoBind(g)
    \/ \E g \in Goroutines : GoHandleSpan(g)

SpecRace == InitRace /\ [][NextRace]_vars

\* the SpanContext fields read when a span is looked up in context c
RECURSIVE ContextReads(_)
ContextReads(c) ==
    IF c.k # "handle" THEN {}
    ELSE {[h |-> c.id, f |-> "Context", w |-> FALSE]}
         \cup ContextReads(handles[c.id].Context)

\* the memory accesses goroutine g makes in its next step
Accesses(g) ==
    CASE calls[g].pc = "setName" ->
            {[h |-> calls[g].span, f |-> "traceName", w |-> TRUE]}
      [] calls[g].pc \in {"pickCtx", "checkCtx", "readCtx"} ->
            {[h |-> calls[g].span, f |-> "Context", w |-> FALSE]}
      [] calls[g].pc = "defaultCtx" ->
            {[h |-> calls[g].span, f |-> "Context", w |-> TRUE]}
      [] calls[g].pc = "start" ->
            {[h |-> calls[g].span, f |-> "traceName", w |-> FALSE]}
            \cup ContextReads(calls[g].startCtx)
      [] calls[g].pc = "bind" ->
            {[h |-> calls[g].span, f |-> "Context", w |-> TRUE],
             [h |-> calls[g].span, f |-> "Span", w |-> TRUE]}
      [] calls[g].pc = "span" -> ContextReads(calls[g].ctx)
      [] OTHER -> {}

----------------------------------------------------------------------------
(* The earlier revision, lines 428-714: SpanAttr and getSpanWithAttrs *)

\* the loop of getSpanWithAttrs from index i (0-based) on: arr is the backing
\* array the caller's slice still spans, len the length of the local slice
\* that slices.Delete(attrs, i, 1) has been shortening, span the last match
RECURSIVE spanScan(_, _, _, _)
spanScan(arr, len, i, span) ==
    IF i >= Len(arr) THEN [panicked |-> FALSE, span |-> span, attrs |-> arr]
    ELSE IF arr[i + 1].h = 0 THEN spanScan(arr, len, i + 1, span)
    ELSE IF ~DeleteOk(SubSeq(arr, 1, len), i, 1)
    THEN [panicked |-> TRUE, span |-> arr[i + 1].h, attrs |-> arr]
    ELSE spanScan(AfterDelete(SubSeq(arr, 1, len), i, 1)
                      \o SubSeq(arr, len + 1, Len(arr)),
                  len - (1 - i), i + 1, arr[i + 1].h)

\* getSpanWithAttrs(attrs): the span found (0 = nil) and what the caller's
\* attrs slice reads afterwards
getSpanWithAttrs(attrs) == spanScan(attrs, Len(attrs), 0, 0)

\* lines 542-545 of traceWithSpan, r being what Start returned
bindSpanAttr(r, hs, sp, ctx, hid) ==
    IF r.panicked
    THEN [panicked |-> TRUE, hs |-> hs, sp |-> sp, ctx |-> ctx, started |-> 0]
    ELSE [panicked |-> FALSE,
          hs |-> [hs EXCEPT ![hid].Context = r.ctx, ![hid].Span = r.span],
          sp |-> r.sp, ctx |-> r.ctx, started |-> r.span]

\* traceWithSpan(ctx, spanAttr)
traceWithSpan(hs, sp, rec, ctx, hid) ==
    IF hid = 0
    THEN [panicked |-> FALSE, hs |-> hs, sp |-> sp, ctx |-> ctx, started |-> 0]
    ELSE bindSpanAttr(TracerStart(hs, sp, rec, ctx, hs[hid].traceName,
                                  hs[hid].spanName, hid),
                      hs, sp, ctx, hid)

\* lines 570-582: the event attributes, converted under the span event key
eventAttrsEarlier(h, level, msg, attrs) ==
    Concat([n \in 1..Len(attrs) |-> convertAttrs(attrs[n], <<h.spanEventKey>>)])
    \o << KV("msg", "STRING", msg),
          KV("level", "STRING", LevelString(level)),
          KV("time", "STRING", FormatRFC3339(RecordTime)) >>

\* lines 563-599 of the earlier Handle, s being trace.SpanFromContext(ctx)
recordOnEarlier(s, h, sp, level, msg, attrs) ==
    IF ~IsRecording(sp, s)
    THEN [sp |-> sp, attrs |-> attrs, active |-> 0, event |-> FALSE, ev |-> <<>>]
    ELSE [sp |-> [sp EXCEPT ![s].events = IF h.spanEvent
                                          THEN Append(@, Event(h.spanEventKey, msg))
                                          ELSE @,
                            ![s].status = setSpanStatus(@, level, msg)],
          attrs |-> attrs \o addTraceIDs(h, sp, s),
          active |-> s, event |-> h.spanEvent,
          ev |-> IF h.spanEvent THEN eventAttrsEarlier(h, level, msg, attrs)
                 ELSE <<>>]

\* the contexts an application can pass: the background context or one that
\* carries the live span of a SpanAttr
ContextsEarlier ==
    {Background} \cup {WithSpanCtx(handles[h].Span) :
                         h \in {x \in 1..Len(handles) : handles[x].Span # 0}}

\* NewSpanAttr(traceName, spanName, mustOpts...)
NewSpanAttr ==
    \E tn \in TraceNames, must \in BOOLEAN : NewHandle(NilCtx, tn, must)

\* Handle(ctx, record) of the earlier revision on handlers[i]; the sink is
\* called without a nil check
HandleEarlier(i, ctx, level, recAttrs) ==
    \E g \in {getSpanWithAttrs(collectAttributes(handlers[i], recAttrs))} :
    \E t \in {traceWithSpan(handles, spans, tracer, ctx, IF g.panicked THEN 0 ELSE g.span)} :
    \E r \in {recordOnEarlier(SpanFromContext(t.hs, t.ctx), handlers[i], t.sp,
                              level, Msg, g.attrs)} :
    \E ok \in {~g.panicked /\ ~t.panicked /\ ~handlers[i].Next.nil} :
       /\ handles' = t.hs
       /\ spans' = IF g.panicked \/ t.panicked THEN t.sp ELSE r.sp
       /\ last' = [NoCall EXCEPT
                     !.op = "Handle", !.handler = i, !.ctx = ctx, !.level = level,
                     !.attrs = recAttrs, !.panicked = ~ok,
                     !.handle = IF g.panicked THEN 0 ELSE g.span,
                     !.found = IF g.panicked THEN Panic ELSE g.span,
                     !.outCtx = t.ctx, !.started = t.started,
                     !.stripped = g.attrs,
                     !.preHandles = handles, !.preSpans = spans,
                     !.active = IF ok THEN r.active ELSE 0,
                     !.event = ok /\ r.event,
                     !.ev = IF ok THEN r.ev ELSE <<>>,
                     !.forwarded = ok,
                     !.fwd = IF ok THEN r.attrs ELSE <<>>,
                     !.err = ok /\ handlers[i].Next.err]
       /\ UNCHANGED <<handlers, arrays, tracer>>

HandleAnyEarlier ==
    \E i \in 1..Len(handlers), ctx \in ContextsEarlier, level \in Levels,
       recAttrs \in RecAttrLists : HandleEarlier(i, ctx, level, recAttrs)

\* WithAttrs(attrs) of the earlier revision: traceLevel is not carried over
WithAttrsEarlier ==
    \E i \in 1..Len(handlers), attrs \in ForkAttrLists :
        /\ handlers' = Append(handlers, [handlers[i] EXCEPT
                                           !.attrs = attrs,
                                           !.attrsAt = Len(handlers[i].path0),
                                           !.traceLevel = LevelInfo])
        /\ last' = [NoCall EXCEPT !.op = "WithAttrs", !.handler = i,
                                  !.attrs = attrs, !.child = Len(handlers) + 1]
        /\ UNCHANGED <<arrays, handles, spans, tracer>>

\* WithGroup(name) of the earlier revision: neither attrs nor traceLevel is
\* carried over; h.Next.WithGroup(name) fails on a nil Next
WithGroupEarlier ==
    \E i \in 1..Len(handlers), name \in GroupNames :
        IF handlers[i].Next.nil
        THEN /\ last' = [NoCall EXCEPT !.op = "WithGroup", !.handler = i,
                                       !.name = name, !.panicked = TRUE]
             /\ UNCHANGED <<handlers, arrays, handles, spans, tracer>>
        ELSE /\ handlers' = Append(handlers,
                  [handlers[i] EXCEPT !.attrs = <<>>,
                                      !.traceLevel = LevelInfo,
                                      !.Next.groups = Append(@, name),
                                      !.path0 = Append(@, name)])
             /\ last' = [NoCall EXCEPT !.op = "WithGroup", !.handler = i,
                                       !.name = name,
                                       !.child = Len(handlers) + 1]
             /\ UNCHANGED <<arrays, handles, spans, tracer>>

NextEarlier ==
    \/ Ready /\ NewSpanAttr
    \/ Ready /\ HandleAnyEarlier
    \/ Ready /\ End
    \/ Ready /\ WithAttrsEarlier
    \/ Ready /\ WithGroupEarlier
    \/ Return

\* NewHandler of the earlier revision sets traceLevel to slog.LevelInfo and
\* has no option that changes it
InitEarlier ==
    \E c \in {x \in Setups : x.tl = LevelInfo} :
        /\ handlers = << NewHandler(c.next, LevelInfo, c.se, c.custom) >>
        /\ tracer = c.tracer
        /\ arrays = <<>>
        /\ handles = <<>>
        /\ spans = <<>>
        /\ last = NoCall
        /\ nops = 0
        /\ calls = <<>>

SpecEarlier == InitEarlier /\ [][NextEarlier]_vars

----------------------------------------------------------------------------
(* What the properties below read off a Handle call that has just returned *)

LastH == handlers[last.handler]

\* the attribute list the call assembles and the positions of span handles in it
Assembled == LastH.attrs \o last.attrs
HandlePositions == {p \in 1..Len(Assembled) : Assembled[p].h # 0}
FirstPos ==
    IF HandlePositions = {} THEN 0
    ELSE CHOOSE p \in HandlePositions : \A q \in HandlePositions : p <= q
Without(seq, p) ==
    IF p = 0 THEN seq ELSE SubSeq(seq, 1, p - 1) \o SubSeq(seq, p + 1, Len(seq))

\* the span handle the call carries: the first among the attributes, otherwise
\* the ambient context when that is a span handle; 0 when it carries none
CallHandle ==
    IF FirstPos # 0 THEN Assembled[FirstPos].h
    ELSE IF last.ctx.k = "handle" THEN last.ctx.id ELSE 0

\* the context the call resolves to before anything is started: the bound
\* context of the handle it carries and, where the handle has none, the ambient
\* context (the background context for a handle that is the ambient context)
ResolvedCtx ==
    IF FirstPos # 0
    THEN IF last.preHandles[CallHandle].Context # NilCtx
         THEN last.preHandles[CallHandle].Context ELSE last.ctx
    ELSE IF last.ctx.k = "handle"
    THEN IF last.preHandles[CallHandle].Context # NilCtx
         THEN last.preHandles[CallHandle].Context ELSE Background
    ELSE last.ctx

\* the span active on that context when the call was made
ActiveBefore == SpanFromContext(last.preHandles, ResolvedCtx)

\* the span the call started, 0 if it started none
StartedNow == IF Len(spans) > Len(last.preSpans) THEN Len(spans) ELSE 0

\* the trace-ID and span-ID fields of a forwarded record, and the rest of it
IsIdField(a) == a.key \in {LastH.traceIDKey, LastH.spanIDKey}
IsNotIdField(a) == ~IsIdField(a)
IdsOf(attrs) == SelectSeq(attrs, IsIdField)
NonIdsOf(attrs) == SelectSeq(attrs, IsNotIdField)
IdFields(s) ==
    << StrAttr(LastH.traceIDKey, ToString(spans[s].trace)),
       StrAttr(LastH.spanIDKey, ToString(spans[s].sid)) >>

\* the call recorded one event on span b (when events are enabled) and none on
\* any other span that existed before it
EventsOnlyOn(b) ==
    \A s \in 1..Len(last.preSpans) :
        Len(spans[s].events) =
            Len(last.preSpans[s].events)
            + (IF s = b /\ LastH.spanEvent THEN 1 ELSE 0)

\* a call below the minimum trace level that carries a non-mandatory handle
Gated ==
    /\ last.op = "Handle"
    /\ CallHandle # 0
    /\ last.level < LastH.traceLevel
    /\ ~last.preHandles[CallHandle].must

\* the call started a span for the handle it carries, injected that span's
\* IDs and recorded exactly one event on it
StartedAndCorrelated ==
    /\ ~last.panicked
    /\ StartedNow # 0
    /\ spans[StartedNow].owner = CallHandle
    /\ handles[CallHandle].Span = StartedNow
    /\ last.forwarded => IdsOf(last.fwd) = IdFields(StartedNow)
    /\ LastH.spanEvent => Len(spans[StartedNow].events) = 1

----------------------------------------------------------------------------
(* Properties *)

\* C1, as the spec states it: a Handle call below the minimum trace level
\* with an unstarted non-mandatory handle leaves the handle unstarted, adds no
\* trace-ID or span-ID field to the forwarded record and records no event on
\* any span, whatever the ambient context carries.
C1_GatedNeverCorrelates ==
    (Gated /\ last.preHandles[CallHandle].Span = 0) =>
        /\ handles[CallHandle].Span = 0
        /\ Len(spans) = Len(last.preSpans)
        /\ last.forwarded => IdsOf(last.fwd) = <<>>
        /\ EventsOnlyOn(0)

\* C1, amended: a Handle call below the minimum trace level with a
\* non-mandatory handle starts no span and leaves the handle's span as it was;
\* IDs are added to the forwarded record and an event is recorded only when a
\* recording span was already active on the context the call resolves to, and
\* then they are that span's IDs and the event is on that span alone.
C1_GatedCorrelatesOnlyWithActiveSpan ==
    Gated =>
        /\ Len(spans) = Len(last.preSpans)
        /\ handles[CallHandle].Span = last.preHandles[CallHandle].Span
        /\ IF IsRecording(last.preSpans, ActiveBefore)
           THEN /\ ~last.panicked
                /\ last.forwarded => IdsOf(last.fwd) = IdFields(ActiveBefore)
                /\ EventsOnlyOn(ActiveBefore)
           ELSE /\ last.forwarded => IdsOf(last.fwd) = <<>>
                /\ EventsOnlyOn(0)

\* C1 witness: a gated call on an unstarted handle, made where a recording
\* span was active, has forwarded its record and recorded an event
C1_Witness ==
    /\ Gated
    /\ last.preHandles[CallHandle].Span = 0
    /\ IsRecording(last.preSpans, ActiveBefore)
    /\ last.forwarded
    /\ last.event

\* C2: with a recording tracer, a Handle call at or above the minimum trace
\* level that carries a non-mandatory handle starts the handle, forwards the
\* new span's trace ID and span ID and records exactly one event on the new
\* span when events are enabled.
C2_UpperHalfStarts ==
    (/\ last.op = "Handle"
     /\ CallHandle # 0
     /\ last.level >= LastH.traceLevel
     /\ ~last.preHandles[CallHandle].must
     /\ tracer) => StartedAndCorrelated

\* C3: with a recording tracer, a Handle call below the minimum trace level
\* that carries a mandatory handle starts a span, injects its IDs into the
\* forwarded record and records an event on it when events are enabled.
C3_MandatoryOverride ==
    (/\ last.op = "Handle"
     /\ CallHandle # 0
     /\ last.level < LastH.traceLevel
     /\ last.preHandles[CallHandle].must
     /\ tracer) => StartedAndCorrelated

\* C4: at most one span is ever started for a span handle.
C4_StartedAtMostOnce ==
    \A hid \in 1..Len(handles) : Cardinality(OwnedBy(spans, hid)) <= 1

\* C5: End never fails; on a handle that was never started it ends no span,
\* on a handle whose span has already ended it changes nothing, and otherwise
\* it ends the handle's live span and no other.
C5_EndIdempotentTotal ==
    last.op = "End" =>
        /\ ~last.panicked
        /\ handles = last.preHandles
        /\ Len(spans) = Len(last.preSpans)
        /\ Ended(spans) =
              Ended(last.preSpans)
              \cup {s \in {last.preHandles[last.handle].Span} :
                        IsRecording(last.preSpans, s)}

\* C5 witness: End has been called on a handle whose span had already ended
C5_Witness ==
    /\ last.op = "End"
    /\ last.preHandles[last.handle].Span # 0
    /\ last.preHandles[last.handle].Span \in Ended(last.preSpans)
    /\ ~last.panicked

\* C6: WithGroup never changes the group path of a handler that already
\* exists: every handler keeps the path it was created with.
C6_ForksKeepTheirPaths ==
    \A i \in 1..Len(handlers) : Path(i) = handlers[i].path0

\* C7: the record forwarded to the sink carries the handler's forked-in
\* attributes followed by the record's own, less the span handle discovered
\* (trace-ID and span-ID fields apart).
C7_ForwardsForkedAttrs ==
    (last.op = "Handle" /\ last.forwarded) =>
        NonIdsOf(last.fwd) = Without(Assembled, FirstPos)

C10_RemovesFirstHandleOnly ==
    (last.op = "Handle" /\ FirstPos # 0) =>
        /\ last.found # Panic
        /\ last.found = Assembled[FirstPos].h
        /\ last.stripped = Without(Assembled, FirstPos)

\* C11: a span handle constructed with a non-empty tracer name is started
\* under that tracer name, whatever attribute key carries it.
C11_OwnTracerNameKept ==
    (/\ last.op = "Handle"
     /\ StartedNow # 0
     /\ last.preHandles[CallHandle].traceName # "") =>
        /\ last.tracerName = last.preHandles[CallHandle].traceName
        /\ handles[CallHandle].traceName = last.preHandles[CallHandle].traceName

\* C12: every record attribute with key k is recorded in the span event under
\* the key g1.(...).gn.E.k, [g1..gn] being the handler's group path and E its
\* span-event key ("log.k1" with the defaults and no group).
C12_EventKeysPrefixed ==
    (last.op = "Handle" /\ last.event) =>
        /\ Len(last.ev) >= Len(last.stripped)
        /\ \A n \in 1..Len(last.stripped) :
              last.ev[n].key =
                  Join(Path(last.handler)
                       \o << LastH.spanEventKey, last.stripped[n].key >>)

\* the last n elements of a sequence
LastN(seq, n) == SubSeq(seq, Len(seq) - n + 1, Len(seq))

\* the spans the call started carry no event, b apart
NewSpansEventless(b) ==
    \A s \in (Len(last.preSpans) + 1)..Len(spans) :
        s # b => spans[s].events = <<>>

\* C13: with event recording enabled, a Handle call whose resulting context
\* has an active recording span records exactly one event on that span and on
\* no other, named by the span-event key and ending with the unprefixed fields
\* msg, level (the level's name) and time; a call whose resulting context has
\* no recording span records no event on any span.
C13_OneEventOnActiveSpan ==
    (last.op = "Handle" /\ ~last.panicked /\ LastH.spanEvent) =>
        \A s \in {SpanFromContext(handles, last.outCtx)} :
            IF IsRecording(spans, s)
            THEN /\ s = (IF StartedNow # 0 THEN StartedNow ELSE ActiveBefore)
                 /\ s <= Len(last.preSpans) => EventsOnlyOn(s)
                 /\ s > Len(last.preSpans) =>
                       EventsOnlyOn(0) /\ Len(spans[s].events) = 1
                 /\ NewSpansEventless(s)
                 /\ spans[s].events[Len(spans[s].events)] =
                       Event(LastH.spanEventKey, last.msg)
                 /\ last.event
                 /\ Len(last.ev) >= 3
                 /\ LastN(last.ev, 3) =
                       << KV("msg", "STRING", last.msg),
                          KV("level", "STRING", LevelString(last.level)),
                          KV("time", "STRING", "2023-01-01T00:00:00Z") >>
                 /\ \A n \in 1..(Len(last.ev) - 3) :
                       last.ev[n].key \notin {"msg", "level", "time"}
            ELSE /\ EventsOnlyOn(0)
                 /\ NewSpansEventless(0)
                 /\ ~last.event
                 /\ last.ev = <<>>

\* C13 witness: a call that started no span has recorded a second event on the
\* span that was already active
C13_Witness ==
    /\ last.op = "Handle"
    /\ ~last.panicked
    /\ LastH.spanEvent
    /\ StartedNow = 0
    /\ IsRecording(spans, ActiveBefore)
    /\ last.event
    /\ Len(spans[ActiveBefore].events) = 2
    /\ spans[ActiveBefore].events[2] = Event(LastH.spanEventKey, last.msg)

\* C14: with span events disabled no span ever has an event, while a Handle
\* call that carries a handle still starts a span exactly when the record's
\* level is at or above the minimum trace level or the handle is mandatory,
\* and the forwarded record still carries the IDs of the recording span active
\* on the resulting context.
C14_NoEventsStillCorrelated ==
    ~handlers[1].spanEvent =>
        /\ \A s \in 1..Len(spans) : spans[s].events = <<>>
        /\ (last.op = "Handle" /\ ~last.panicked) =>
              /\ ~last.event
              /\ CallHandle # 0 =>
                    (StartedNow # 0 <=>
                        (\/ last.level >= LastH.traceLevel
                         \/ last.preHandles[CallHandle].must))
              /\ \A s \in {IF StartedNow # 0 THEN StartedNow ELSE ActiveBefore} :
                    last.forwarded =>
                        IdsOf(last.fwd) =
                            (IF IsRecording(spans, s) THEN IdFields(s) ELSE <<>>)

\* C14 witness: with events disabled a call has started a span, which has no
\* event, and forwarded its IDs
C14_Witness ==
    /\ ~handlers[1].spanEvent
    /\ last.op = "Handle"
    /\ StartedNow # 0
    /\ spans[StartedNow].events = <<>>
    /\ last.forwarded
    /\ IdsOf(last.fwd) = IdFields(StartedNow)

\* the status of span s before the call (unset for a span the call started)
StatusBefore(s) ==
    IF s <= Len(last.preSpans) THEN last.preSpans[s].status
    ELSE [code |-> "Unset", desc |-> ""]

\* C15: a Handle call sets the status of the recording span active on the
\* resulting context to error, described by the record's message, when the
\* record's level is exactly the error level; at every other level, above
\* error included, and on every other span, the status stays as it was.
C15_ErrorLevelAloneSetsStatus ==
    (last.op = "Handle" /\ ~last.panicked) =>
        \A a \in {IF StartedNow # 0 THEN StartedNow ELSE ActiveBefore} :
        \A s \in 1..Len(spans) :
            spans[s].status =
                (IF s = a /\ IsRecording(spans, a) /\ last.level = LevelError
                 THEN [code |-> "Error", desc |-> last.msg]
                 ELSE StatusBefore(s))

\* C15 witness: a record above the error level has reached a recording span
\* and left its status unset
C15_Witness ==
    /\ last.op = "Handle"
    /\ ~last.panicked
    /\ last.level > LevelError
    /\ last.active # 0
    /\ IsRecording(spans, last.active)
    /\ spans[last.active].status.code = "Unset"

\* C16: every Handle call forwards the record to the sink exactly when the
\* sink is present and enabled for the record's level and then returns the
\* sink's result; in every other case it returns success.
C16_ResultIsTheSinks ==
    last.op = "Handle" =>
        /\ ~last.panicked
        /\ last.forwarded <=>
              (~LastH.Next.nil /\ SinkEnabled(LastH.Next, last.level))
        /\ last.err <=> (last.forwarded /\ LastH.Next.err)

\* C17: on a handler constructed with no sink, Enabled, Handle, WithAttrs and
\* WithGroup all complete without failure.
C17_NilSinkNeverFails ==
    (/\ last.op \in {"Enabled", "Handle", "WithAttrs", "WithGroup"}
     /\ LastH.Next.nil) => ~last.panicked

Config(h) ==
    [traceIDKey |-> h.traceIDKey, spanIDKey |-> h.spanIDKey,
     spanEventKey |-> h.spanEventKey, spanEvent |-> h.spanEvent,
     traceLevel |-> h.traceLevel]

\* C19: every handler reached from the constructed handler by WithAttrs and
\* WithGroup calls has the constructed handler's trace-ID key, span-ID key,
\* span-event key, event-recording toggle and minimum trace level.
C19_ConfigurationInvariant ==
    \A i \in 1..Len(handlers) : Config(handlers[i]) = Config(handlers[1])

\* C19 witness: a handler with a minimum trace level and keys that are not the
\* defaults has been forked to a handler with attributes and a group path
C19_Witness ==
    \E i \in 2..Len(handlers) :
        /\ handlers[i].traceLevel = LevelWarn
        /\ handlers[i].spanEventKey = "ev"
        /\ handlers[i].attrs # <<>>
        /\ Path(i) # <<>>

\* C20: WithAttrs(attrs) returns a new handler whose attribute list is the
\* given list, whose group path and configuration are the parent's and whose
\* sink is the parent's; the parent and every other handler that existed,
\* their attributes, group paths and sinks, are as they were.
C20_WithAttrsReplacesAttrs ==
    last.op = "WithAttrs" =>
        /\ ~last.panicked
        /\ last.child = Len(last.preHandlers) + 1
        /\ Len(handlers) = last.child
        /\ handlers[last.child].attrs = last.attrs
        /\ Path(last.child) =
              Elems(last.preArrays, last.preHandlers[last.handler].groupKeys)
        /\ Config(handlers[last.child]) = Config(last.preHandlers[last.handler])
        /\ handlers[last.child].Next = last.preHandlers[last.handler].Next
        /\ \A j \in 1..Len(last.preHandlers) :
              /\ handlers[j].attrs = last.preHandlers[j].attrs
              /\ handlers[j].Next = last.preHandlers[j].Next
              /\ Path(j) = Elems(last.preArrays, last.preHandlers[j].groupKeys)

\* C20 witness: WithAttrs has been called on a handler that had attributes and
\* a group path, and the new handler has the given attributes alone
C20_Witness ==
    /\ last.op = "WithAttrs"
    /\ last.preHandlers[last.handler].attrs # <<>>
    /\ Path(last.handler) # <<>>
    /\ handlers[last.child].attrs = last.attrs

\* C21: the handler never ends a span: Handle, WithAttrs, WithGroup and
\* Enabled leave every span that was not ended not ended (and every ended span
\* ended), so a span is ended only by End or Done.
C21_HandlerEndsNoSpan ==
    last.op \in {"Handle", "WithAttrs", "WithGroup", "Enabled"} =>
        /\ Len(spans) >= Len(last.preSpans)
        /\ Ended(spans) = Ended(last.preSpans)

\* C21 witness: a Handle call at the error level has set the status of a
\* recording span that an earlier call started, and the span is not ended
C21_Witness ==
    /\ last.op = "Handle"
    /\ last.level = LevelError
    /\ StartedNow = 0
    /\ last.active # 0
    /\ spans[last.active].status.code = "Error"
    /\ ~spans[last.active].ended

\* the recording spans whose parent is span a
ChildrenOf(sp, a) ==
    {s \in 1..Len(sp) : s # a /\ sp[s].rec /\ sp[s].parent = sp[a].sid}

\* C22: a span started by a log call on a context that carries a recording
\* span A has A's trace ID and A as its parent; End or Done on A's handle
\* leaves every child of A's span as it was, not ended if it was not, and End
\* on a child's handle leaves A's span as it was.
C22_NestedSpans ==
    /\ (last.op = "Handle" /\ StartedNow # 0 /\ tracer /\ ActiveBefore > 0) =>
          /\ spans[StartedNow].trace = spans[ActiveBefore].trace
          /\ spans[StartedNow].parent = spans[ActiveBefore].sid
          /\ StartedNow \in ChildrenOf(spans, ActiveBefore)
    /\ (last.op \in {"End", "Done"} /\ last.preHandles[last.handle].Span # 0) =>
          \A s \in ChildrenOf(spans, last.preHandles[last.handle].Span) :
              spans[s].ended = last.preSpans[s].ended
    /\ (last.op = "End" /\ last.preHandles[last.handle].Span # 0) =>
          \A a \in 1..Len(spans) :
              last.preHandles[last.handle].Span \in ChildrenOf(spans, a) =>
                  spans[a].ended = last.preSpans[a].ended

\* C22 witness: End on the handle of a parent span has ended it and its child,
\* in the same trace, is not ended
C22_Witness ==
    /\ last.op = "End"
    /\ last.preHandles[last.handle].Span # 0
    /\ spans[last.preHandles[last.handle].Span].ended
    /\ ~last.preSpans[last.preHandles[last.handle].Span].ended
    /\ \E s \in ChildrenOf(spans, last.preHandles[last.handle].Span) :
          /\ spans[s].trace = spans[last.preHandles[last.handle].Span].trace
          /\ ~spans[s].ended

\* the events of span s before the call (none for a span the call started)
EventsBefore(s) ==
    IF s <= Len(last.preSpans) THEN last.preSpans[s].events ELSE <<>>

\* C23: a Handle call made against an active recording span puts its event
\* after the events the span already has and leaves those, and the events of
\* every other span, as they were; the event list of a span is therefore one
\* event per call in the order of the calls.
C23_EventsInCallOrder ==
    (last.op = "Handle" /\ ~last.panicked /\ LastH.spanEvent) =>
        \A a \in {IF StartedNow # 0 THEN StartedNow ELSE ActiveBefore} :
        \A s \in 1..Len(spans) :
            spans[s].events =
                (IF s = a /\ IsRecording(spans, a)
                 THEN Append(EventsBefore(s),
                             Event(LastH.spanEventKey, last.msg))
                 ELSE EventsBefore(s))

\* C23 witness: three calls against one span have left their three events on
\* it, the last two with different messages, in the order of the calls
C23_Witness ==
    /\ last.op = "Handle"
    /\ last.active # 0
    /\ Len(spans[last.active].events) = 3
    /\ spans[last.active].events[2].msg # spans[last.active].events[3].msg
    /\ spans[last.active].events[3].msg = last.msg

\* C24: whatever the interleaving of two concurrent Handle calls on the same
\* handler, the two never stand before accesses to the same field of the same
\* span handle of which one is a write.
C24_NoConflictingAccesses ==
    \A g1 \in DOMAIN calls, g2 \in DOMAIN calls :
        g1 # g2 =>
            \A a1 \in Accesses(g1), a2 \in Accesses(g2) :
                (a1.h = a2.h /\ a1.f = a2.f) => (~a1.w /\ ~a2.w)

\* C25: on a handler constructed without WithTraceLevel (its traceLevel is
\* the zero value, slog.LevelInfo) a log call that carries a non-mandatory
\* span handle and completes starts a span, whatever the record's level.
C25_DefaultStartsAtEveryLevel ==
    (/\ last.op = "Handle"
     /\ ~last.panicked
     /\ LastH.traceLevel = LevelInfo
     /\ CallHandle # 0
     /\ ~last.preHandles[CallHandle].must) => StartedNow # 0

----------------------------------------------------------------------------
(* The converter.                                                          *)

\* the attributes of a tree that are not groups, depth first and left to
\* right, each with the keys of the groups that enclose it and its own key
RECURSIVE LeafPaths(_, _)
LeafPaths(attr, path) ==
    IF attr.kind = "Group"
    THEN Concat([n \in 1..Len(attr.val) |->
                    LeafPaths(attr.val[n], path \o << attr.key >>)])
    ELSE << [segs |-> path \o << attr.key >>] >>

\* C26: for every attribute tree and every prefix sequence the converter
\* produces one pair per attribute that is not a group, in depth-first
\* left-to-right order, the key of each being the prefix segments, the keys of
\* the enclosing groups from the outermost to the innermost and the key of the
\* attribute joined with "."; with an empty prefix the key has no leading dot
\* and a group with no children produces no pair.
C26_GroupRecursion ==
    last.op = "convertAttrs" =>
        LET leaves == LeafPaths(last.tree, last.prefix)
        IN /\ Len(last.pairs) = Len(leaves)
           /\ \A n \in 1..Len(leaves) :
                  last.pairs[n].key = Join(leaves[n].segs)

C26_Witness ==
    /\ last.op = "convertAttrs"
    /\ last.tree = DeepGroup
    /\ last.prefix = <<"a", "log">>
    /\ Len(last.pairs) = 2
    /\ last.pairs[1].key = "a.log.a.b.c.k"
    /\ last.pairs[2].key = "a.log.a.b.j"

\* C27: every attribute that is not a group yields exactly one pair; a bool, a
\* 64-bit integer, a float and a string keep their type and value, a duration
\* becomes the integer count of its nanoseconds, a time becomes its RFC 3339
\* string and a 64-bit unsigned value becomes its decimal string.
C27_ValueMapping ==
    (last.op = "convertAttrs" /\ last.tree.kind # "Group") =>
        /\ Len(last.pairs) = 1
        /\ LET t == last.tree
               p == last.pairs[1]
           IN CASE t.kind = "Bool" -> p.type = "BOOL" /\ p.val = t.val
                [] t.kind = "Int64" -> p.type = "INT64" /\ p.val = t.val
                [] t.kind = "Float64" -> p.type = "FLOAT64" /\ p.val = t.val
                [] t.kind = "String" -> p.type = "STRING" /\ p.val = t.val
                [] t.kind = "Duration" ->
                       /\ p.type = "INT64"
                       /\ p.val = t.val
                       /\ t.val = 2 * Second => p.val = 2000000000
                [] t.kind = "Time" ->
                       /\ p.type = "STRING"
                       /\ t.val.year = 2024 => p.val = "2024-02-29T13:05:09Z"
                [] t.kind = "Uint64" ->
                       /\ p.type = "STRING"
                       /\ t.val = 100 => p.val = "100"
                [] OTHER -> TRUE

C27_Witness ==
    /\ last.op = "convertAttrs"
    /\ last.tree.kind = "Duration"
    /\ last.tree.val = 2 * Second
    /\ last.pairs = << KV(PrefixedKey("k", last.prefix), "INT64", 2000000000) >>

----------------------------------------------------------------------------
(* Totality of Handle and of Done.                                         *)

\* C28: Handle completes without failure for every combination of a handle
\* among the attributes (with or without a bound context, started or not) and
\* an ambient context (a plain context, or a handle in any state of its life,
\* a never started one with no bound context included).
C28_HandleIsTotal ==
    (last.op = "Handle" /\ last.found # 0) => ~last.panicked

\* C29: in every state of a handle (constructed with or without a bound
\* context; never seen by a handler, gated, started or ended) Done ends the
\* live span if there is one and returns without failure.
C29_DoneIsTotal ==
    last.op = "Done" =>
        /\ ~last.panicked
        /\ last.preHandles[last.handle].Span # 0 =>
               spans[last.preHandles[last.handle].Span].ended

----------------------------------------------------------------------------
(* Groups and the attributes given to WithAttrs.                           *)

\* C30: the attributes a handler was given with WithAttrs before a later
\* WithGroup(g) are not qualified by g: in the span event their keys carry the
\* groups entered before they were given, and only the attributes given after
\* WithGroup(g), the record's own included, carry g.
C30_ForkedAttrsKeepTheirGroups ==
    (/\ last.op = "Handle"
     /\ ~last.panicked
     /\ last.event
     /\ last.pos > Len(LastH.attrs)) =>
        \A n \in 1..Len(LastH.attrs) :
            last.ev[n].key =
                PrefixedKey(LastH.attrs[n].key,
                            SubSeq(Elems(arrays, LastH.groupKeys), 1,
                                   LastH.attrsAt))

====
